---- MODULE Spec2Model ----
(***************************************************************************)
(* A model of the ausome-scraper repository.  The repository holds two     *)
(* builds of the same program, each a `package main`:                      *)
(*   src/unnamed/part_000  reads urls.json, starts a browser session per   *)
(*                         URL, captures a screenshot on failure and       *)
(*                         serves the products table over HTTP;            *)
(*   src/main/main.go      scrapes one hard-coded URL through the one      *)
(*                         browser context main() creates; no HTTP API.    *)
(* The variable prog says which build runs; a behaviour is a run of one    *)
(* build.  The scrape loop is one sequential goroutine whose position is   *)
(* pc; the read API is a second goroutine (api).                           *)
(***************************************************************************)
EXTENDS Integers, Sequences, FiniteSets, TLC

\* ---------------------------------------------------------------- bounds
MaxCycles == 2

\* ------------------------------------------------------ program constants
PrimaryTimeout == 60
DiagTimeout == 10
PreDelayBase == 2
PreDelaySpan == 5
PostDelayBase == 5
PostDelaySpan == 10
FixedPostDelay == 10
CycleSleepMinutes == 5

\* ------------------------------------------------------------ input sets
URLs == {"A", "B"}

StaticUrls == <<"A">>

Programs == {"part_000", "main_go"}

\* The lists of product pages urls.json can hold: each page at most once.
UrlLists ==
    {<<>>} \cup {<<u>> : u \in URLs}
    \cup {q \in {<<u, v>> : u \in URLs, v \in URLs} : q[1] # q[2]}

\* What os.ReadFile("urls.json") can meet: no file, or bytes that are not
\* JSON, JSON of another shape, the JSON value null, or a JSON list of strings.
UrlFiles ==
    {[kind |-> "missing", elems |-> <<>>],
     [kind |-> "invalid", elems |-> <<>>],
     [kind |-> "object", elems |-> <<>>],
     [kind |-> "null", elems |-> <<>>]}
    \cup {[kind |-> "array", elems |-> q] : q \in UrlLists}

Markers == {"outOfStockMessage", "out-of-stock-msg", "oos-overlay"}

NoTitle == [sel |-> "none", text |-> <<>>, visible |-> FALSE]

HiddenTitle == [sel |-> "h1", text |-> <<"W">>, visible |-> FALSE]

PaddedName == [sel |-> "productName", text |-> <<" ", "W", " ">>, visible |-> TRUE]

EmptyH1 == [sel |-> "h1", text |-> <<>>, visible |-> TRUE]

ClassTitle == [sel |-> "product-title", text |-> <<"W">>, visible |-> TRUE]

Doc(u, b, t, m, h, i) ==
    [loaded |-> u, body |-> b, title |-> t, markers |-> m, hero |-> h, img |-> i]

NoPage == Doc("none", FALSE, NoTitle, {}, FALSE, <<>>)

BlankPage == Doc("about:blank", TRUE, NoTitle, {}, FALSE, <<>>)

\* The documents a navigation to u can end on: one that never gets a body,
\* one without a product element (a CAPTCHA wall), one whose product
\* element stays hidden, and product pages in and out of stock.
PagesAt(u) ==
    {Doc(u, FALSE, NoTitle, {}, FALSE, <<>>),
     Doc(u, TRUE, NoTitle, {}, FALSE, <<>>),
     Doc(u, TRUE, HiddenTitle, {}, FALSE, <<>>),
     Doc(u, TRUE, PaddedName, {}, FALSE, <<>>),
     Doc(u, TRUE, EmptyH1, {"oos-overlay"}, FALSE, <<>>),
     Doc(u, TRUE, ClassTitle, Markers, FALSE, <<>>),
     Doc(u, TRUE, PaddedName, {"out-of-stock-msg"}, TRUE, <<"i">>)}

\* ------------------------------------------------------------- variables
VARIABLES
    prog,       \* which build runs
    alive,      \* FALSE once the process has exited
    pc,         \* position of the scrape goroutine
    cycle,      \* calls of scrapeProducts made so far
    urls,       \* the list scrapeProducts iterates over
    idx,        \* index of the current url in urls
    ret,        \* the error scrapeProducts returns to main
    sessions,   \* the live browser sessions (allocator, context, timer)
    cur,        \* the session tbCtx (or ctx) refers to
    page,       \* the document the current session shows
    err,        \* what chromedp.Run returned for the current url
    name,       \* local of the loop body
    inStock,    \* local of the loop body
    imageURL,   \* local of the loop body
    product,    \* the Product passed to updateProduct in this iteration
    dbErr,      \* what updateProduct returned in this iteration
    store,      \* the rows of the products table
    nextId,     \* the next value of the id sequence
    assigned,   \* history: the id each url's row had when it was inserted
    slept,      \* the time.Sleep the last step of the scrape goroutine made
    api,        \* position of the API goroutine
    logged,     \* the log lines the last step that logs wrote
    served,     \* the HTTP response the last step sent
    shot        \* the screenshot file the last step wrote

vars == <<prog, alive, pc, cycle, urls, idx, ret, sessions, cur, page, err, name, inStock,
          imageURL, product, dbErr, store, nextId, assigned, slept, api, logged, served,
          shot>>

loopLocals == <<err, name, inStock, imageURL, product, dbErr>>

table == <<store, nextId, assigned>>

\* ---------------------------------------------------------------- values
NoProduct == [ID |-> 0, URL |-> "", Name |-> <<>>, InStock |-> FALSE, Price |-> 0,
              ImageURL |-> <<>>, UpdatedAt |-> 0]

NoResponse == [status |-> 0, ctype |-> "", body |-> {}]

NoShot == [url |-> "", shows |-> "none"]

NoSleep == [kind |-> "none", lo |-> 0, hi |-> 0]

\* A sleep of lo to hi seconds.
Sleep(kind, lo, hi) == [kind |-> kind, lo |-> lo, hi |-> hi]

Line(m, u, e) == [msg |-> m, url |-> u, err |-> e]

\* Product is the struct of the program; a composite literal leaves the
\* fields it does not name at their zero value.
Product(u, n, s, img, t) ==
    [ID |-> 0, URL |-> u, Name |-> n, InStock |-> s, Price |-> 0, ImageURL |-> img,
     UpdatedAt |-> t]

\* ------------------------------------------------------- browser scripts
IsSpace(c) == c = " "

RECURSIVE TrimLeft(_)
TrimLeft(s) == IF s # <<>> /\ IsSpace(Head(s)) THEN TrimLeft(Tail(s)) ELSE s

RECURSIVE TrimRight(_)
TrimRight(s) ==
    IF s # <<>> /\ IsSpace(s[Len(s)]) THEN TrimRight(SubSeq(s, 1, Len(s) - 1)) ELSE s

Trim(s) == TrimRight(TrimLeft(s))

\* The selectors of the name script of part_000, in the order it tries them.
NameSelectors == {"productName", "product-title", "h1"}

\* chromedp.WaitVisible(`h1[automation-id="productName"], .product-title, h1`)
TitleVisible(p) == p.title.sel \in NameSelectors /\ p.title.visible

\* nameElement ? nameElement.textContent.trim() : ''
EvalName(p) == IF p.title.sel \in NameSelectors THEN Trim(p.title.text) ELSE <<>>

\* main.go asks for document.querySelector('h1') alone.
H1Selectors == {"productName", "h1"}

H1Visible(p) == p.title.sel \in H1Selectors /\ p.title.visible

EvalH1Name(p) == IF p.title.sel \in H1Selectors THEN Trim(p.title.text) ELSE <<>>

\* outOfStock = q(a) || q(b) || q(c)
OutOfStockElement(p) ==
    IF "outOfStockMessage" \in p.markers THEN "outOfStockMessage"
    ELSE IF "out-of-stock-msg" \in p.markers THEN "out-of-stock-msg"
    ELSE IF "oos-overlay" \in p.markers THEN "oos-overlay"
    ELSE "null"

\* A mutant of EvalInStock: only the first selector is asked for.
EvalInStockFirstSelector(p) == "outOfStockMessage" \notin p.markers

\* return !outOfStock
EvalInStock(p) == OutOfStockElement(p) = "null"

\* ----------------------------------------------------------------- store
RowsOf(st, u) == {r \in st : r.url = u}

Row(id, p) ==
    [id |-> id, url |-> p.URL, name |-> p.Name, in_stock |-> p.InStock, price |-> p.Price,
     image_url |-> p.ImageURL, updated_at |-> p.UpdatedAt]

\* A mutant of UpsertRow: the conflicting row is deleted and inserted
\* anew, so it takes the next id.
UpsertRowNewId(st, id, p) == {r \in st : r.url # p.URL} \cup {Row(id, p)}

\* A mutant of UpsertRow: ON CONFLICT (url) DO NOTHING.
UpsertRowDoNothing(st, id, p) ==
    IF RowsOf(st, p.URL) # {} THEN st ELSE st \cup {Row(id, p)}

\* A mutant of UpsertRow: DO UPDATE SET leaves price and image_url out.
UpsertRowKeepsImage(st, id, p) ==
    IF RowsOf(st, p.URL) # {}
    THEN {IF r.url = p.URL
          THEN [Row(r.id, p) EXCEPT !.price = r.price, !.image_url = r.image_url]
          ELSE r : r \in st}
    ELSE st \cup {Row(id, p)}

\* A mutant of UpsertRow: the table is emptied before the row is written.
UpsertRowTruncates(st, id, p) ==
    IF RowsOf(st, p.URL) # {}
    THEN {Row(r.id, p) : r \in RowsOf(st, p.URL)}
    ELSE {Row(id, p)}

\* INSERT INTO products (...) VALUES (...) ON CONFLICT (url) DO UPDATE SET
\* name, in_stock, price, image_url, updated_at: a row of that url keeps
\* its id and takes the new fields; without one, a row is inserted.
UpsertRow(st, id, p) ==
    IF RowsOf(st, p.URL) # {}
    THEN {IF r.url = p.URL THEN Row(r.id, p) ELSE r : r \in st}
    ELSE st \cup {Row(id, p)}

\* The id sequence moves on when a row is inserted.
SeqAfter(st, id, p) == IF RowsOf(st, p.URL) # {} THEN id ELSE id + 1

\* updateProduct: db.Exec runs the statement, or returns an error and
\* leaves the table as it was.
UpdateProduct(st, id, p, dbOk) ==
    IF dbOk
    THEN [store |-> UpsertRow(st, id, p), nextId |-> SeqAfter(st, id, p), err |-> "nil"]
    ELSE [store |-> st, nextId |-> id, err |-> "db"]

\* rows.Scan(&p.ID, &p.URL, &p.Name, &p.InStock, &p.Price, &p.ImageURL, &p.UpdatedAt)
ScanRow(r) ==
    [ID |-> r.id, URL |-> r.url, Name |-> r.name, InStock |-> r.in_stock,
     Price |-> r.price, ImageURL |-> r.image_url, UpdatedAt |-> r.updated_at]

\* SELECT id, url, name, in_stock, price, image_url, updated_at FROM products
QueryProducts(st) == {ScanRow(r) : r \in st}

\* -------------------------------------------------------------- sessions
\* chromedp.NewExecAllocator + chromedp.NewContext (+ context.WithTimeout):
\* a browser process (alloc), a browser context (ctx) and a deadline in
\* seconds (0: none).  The browser starts with the first Run on the context.
Session(sid, kind, u, secs) ==
    [id |-> sid, kind |-> kind, url |-> u, alloc |-> TRUE, ctx |-> TRUE, timeout |-> secs,
     started |-> FALSE]

\* A session is known by the iteration that made it and by its kind.
Sid(c, i, kind) == <<c, i, kind>>

MainSid == Sid(0, 0, "main")

\* allocCtx, cancel and ctx of main(): made once, cancelled by defer only.
MainSession == Session(MainSid, "main", "", 0)

\* A mutant of PrimarySession: no context.WithTimeout.
PrimarySessionNoTimeout(sid, u) == Session(sid, "primary", u, 0)

\* The session of one attempt: a fresh allocator, a context, 60 seconds.
PrimarySession(sid, u) == Session(sid, "primary", u, PrimaryTimeout)

\* The session of the screenshot: a fresh allocator, a context, 10 seconds.
DiagSession(sid, u) == Session(sid, "diag", u, DiagTimeout)

HasDeadline(ss, sid) == \E s \in ss : s.id = sid /\ s.timeout > 0

\* chromedp.Run on a context launches its browser if it is not running.
StartBrowser(ss, sid) ==
    {IF s.id = sid THEN [s EXCEPT !.started = TRUE] ELSE s : s \in ss}

\* A mutant of CancelSession: allocCancel() is left out.
CancelSessionKeepsAllocator(ss, sid) ==
    {IF s.id = sid THEN [s EXCEPT !.ctx = FALSE, !.timeout = 0] ELSE s : s \in ss}

\* timeoutCancel(); cancel(); allocCancel()
CancelSession(ss, sid) == {s \in ss : s.id # sid}

\* time.Now(): the clock moves on from one iteration to the next and from
\* one cycle to the next.
Now(c, i) == c * (Cardinality(URLs) + 1) + i

\* ------------------------------------------------------------------ init
\* The products table outlives the process: at start it is empty, or holds
\* the row an earlier run of main.go wrote, image_url included.
TablesAtStart ==
    {{}, {Row(1, Product(StaticUrls[1], <<"W">>, TRUE, <<"i">>, 0))}}

\* The id a url's row was inserted with, for the rows of st.
Assigned(a, st) ==
    [u \in URLs |-> IF a[u] = 0 /\ RowsOf(st, u) # {}
                    THEN (CHOOSE r \in RowsOf(st, u) : TRUE).id ELSE a[u]]

Init ==
    /\ prog \in Programs
    /\ alive = TRUE
    /\ pc = "call"
    /\ cycle = 0
    /\ urls = <<>>
    /\ idx = 0
    /\ ret = "nil"
    /\ sessions = {MainSession}
    /\ cur = MainSid
    /\ page = NoPage
    /\ err = "nil"
    /\ name = <<>>
    /\ inStock = FALSE
    /\ imageURL = <<>>
    /\ product = NoProduct
    /\ dbErr = "nil"
    /\ store \in TablesAtStart
    /\ nextId = Cardinality(store) + 1
    /\ assigned = Assigned([u \in URLs |-> 0], store)
    /\ slept = NoSleep
    /\ api = IF prog = "part_000" THEN "starting" ELSE "absent"
    /\ logged = <<>>
    /\ served = NoResponse
    /\ shot = NoShot

\* What a step of the scrape goroutine leaves behind: the log lines it
\* wrote, the screenshot file it wrote and the sleep it made.
Step(lines, file, sleep) ==
    /\ logged' = lines
    /\ shot' = file
    /\ slept' = sleep
    /\ served' = NoResponse

\* The locals of the loop body start afresh with every url.
FreshLocals ==
    /\ err' = "nil"
    /\ name' = <<>>
    /\ inStock' = FALSE
    /\ imageURL' = <<>>
    /\ product' = NoProduct
    /\ dbErr' = "nil"

\* log.Fatal: the line is logged and os.Exit(1) ends the process with its
\* goroutines, their locals and the browsers it started; the table stays.
Fatal(line) ==
    /\ alive' = FALSE
    /\ pc' = "exited"
    /\ api' = "exited"
    /\ cycle' = 0 /\ urls' = <<>> /\ idx' = 0 /\ ret' = "nil"
    /\ sessions' = {} /\ cur' = MainSid /\ page' = NoPage
    /\ FreshLocals
    /\ Step(<<line>>, NoShot, NoSleep)

Running(p) == alive /\ prog = p

Url == urls[idx]

\* ------------------------------------------------- part_000: scrape loop
\* json.Unmarshal(data, &urls): a list of strings, or null (an empty list).
ParseUrls(f) ==
    IF f.kind = "array" THEN [ok |-> TRUE, urls |-> f.elems]
    ELSE IF f.kind = "null" THEN [ok |-> TRUE, urls |-> <<>>]
    ELSE [ok |-> FALSE, urls |-> <<>>]

\* main calls scrapeProducts, which reads and parses urls.json.
LoadTargets ==
    /\ Running("part_000") /\ pc = "call" /\ cycle < MaxCycles
    /\ cycle' = cycle + 1
    /\ idx' = 1
    /\ \E f \in UrlFiles :
         IF f.kind = "missing"
         THEN /\ urls' = <<>> /\ ret' = "read" /\ pc' = "return"
              /\ Step(<<Line("Error reading urls.json", "", "read")>>, NoShot, NoSleep)
         ELSE IF ~ParseUrls(f).ok
         THEN /\ urls' = <<>> /\ ret' = "parse" /\ pc' = "return"
              /\ Step(<<Line("Error parsing urls.json", "", "parse")>>, NoShot, NoSleep)
         ELSE /\ urls' = ParseUrls(f).urls /\ ret' = "nil" /\ pc' = "loop"
              /\ Step(<<Line("Scraping products", "", "nil")>>, NoShot, NoSleep)
    /\ UNCHANGED <<prog, alive, sessions, cur, page, loopLocals, table, api>>

\* time.Sleep(time.Duration(2+rand.Intn(5)) * time.Second)
PreDelay ==
    /\ Running("part_000") /\ pc = "loop" /\ idx <= Len(urls)
    /\ Step(<<>>, NoShot, Sleep("pre", PreDelayBase, PreDelayBase + PreDelaySpan - 1))
    /\ pc' = "create"
    /\ UNCHANGED <<prog, alive, cycle, urls, idx, ret, sessions, cur, page, loopLocals,
                   table, api>>

\* NewExecAllocator, NewContext, WithTimeout; var name, imageURL, inStock
CreateSession ==
    /\ Running("part_000") /\ pc = "create"
    /\ sessions' = sessions \cup {PrimarySession(Sid(cycle, idx, "primary"), Url)}
    /\ cur' = Sid(cycle, idx, "primary")
    /\ pc' = "navigate"
    /\ Step(<<Line("Navigating to", Url, "nil")>>, NoShot, NoSleep)
    /\ UNCHANGED <<prog, alive, cycle, urls, idx, ret, page, loopLocals, table, api>>

RunPcs == {"navigate", "wait_ready", "wait_visible", "eval_name", "eval_stock"}

\* Where the loop body goes once Run has returned e.
AfterRun(e) == IF e # "nil" THEN "diag_create" ELSE "upsert"

\* A mutant of RunReturns: the three cancels are deferred to the return of
\* scrapeProducts.
RunReturnsDeferred(e) ==
    /\ err' = e
    /\ sessions' = StartBrowser(sessions, cur)
    /\ page' = NoPage
    /\ pc' = AfterRun(e)
    /\ Step(<<>>, NoShot, NoSleep)

\* chromedp.Run returns e; timeoutCancel(); cancel(); allocCancel(); and
\* the test of err.
RunReturns(e) ==
    /\ err' = e
    /\ sessions' = CancelSession(StartBrowser(sessions, cur), cur)
    /\ page' = NoPage
    /\ pc' = AfterRun(e)
    /\ Step(<<>>, NoShot, NoSleep)

\* Run goes on to its next task.
RunGoesOn(next) ==
    /\ sessions' = StartBrowser(sessions, cur)
    /\ pc' = next
    /\ err' = err
    /\ Step(<<>>, NoShot, NoSleep)

\* network.Enable(), chromedp.Navigate(url)
Navigate ==
    /\ Running("part_000") /\ pc = "navigate"
    /\ \/ /\ page' \in PagesAt(Url)
          /\ RunGoesOn("wait_ready")
       \/ RunReturns("navigation")
    /\ UNCHANGED <<prog, alive, cycle, urls, idx, ret, cur, name, inStock, imageURL,
                   product, dbErr, table, api>>

\* chromedp.WaitReady("body"): returns once the document has a body.
WaitReady ==
    /\ Running("part_000") /\ pc = "wait_ready"
    /\ page.body
    /\ RunGoesOn("wait_visible")
    /\ UNCHANGED <<prog, alive, cycle, urls, idx, ret, cur, page, name, inStock, imageURL,
                   product, dbErr, table, api>>

\* chromedp.WaitVisible(...): returns once a product element is visible.
WaitVisible ==
    /\ Running("part_000") /\ pc = "wait_visible"
    /\ TitleVisible(page)
    /\ RunGoesOn("eval_name")
    /\ UNCHANGED <<prog, alive, cycle, urls, idx, ret, cur, page, name, inStock, imageURL,
                   product, dbErr, table, api>>

\* chromedp.EvaluateAsDevTools(name script, &name)
EvaluateName ==
    /\ Running("part_000") /\ pc = "eval_name"
    /\ \/ /\ name' = EvalName(page)
          /\ page' = page
          /\ RunGoesOn("eval_stock")
       \/ /\ name' = name
          /\ RunReturns("evaluate")
    /\ UNCHANGED <<prog, alive, cycle, urls, idx, ret, cur, inStock, imageURL, product,
                   dbErr, table, api>>

\* chromedp.EvaluateAsDevTools(stock script, &inStock); Run returns nil.
EvaluateStock ==
    /\ Running("part_000") /\ pc = "eval_stock"
    /\ \/ /\ inStock' = EvalInStock(page)
          /\ RunReturns("nil")
       \/ /\ inStock' = inStock
          /\ RunReturns("evaluate")
    /\ UNCHANGED <<prog, alive, cycle, urls, idx, ret, cur, name, imageURL, product, dbErr,
                   table, api>>

\* The 60 seconds of tbCtx run out while Run is at one of its tasks: Run
\* returns context.DeadlineExceeded.
DeadlineExceeded ==
    /\ Running("part_000") /\ pc \in RunPcs
    /\ HasDeadline(sessions, cur)
    /\ RunReturns("timeout")
    /\ UNCHANGED <<prog, alive, cycle, urls, idx, ret, cur, name, inStock, imageURL,
                   product, dbErr, table, api>>

\* ------------------------------------------ part_000: diagnostic capture
\* A second allocator and context, with 10 seconds, for the screenshot.
DiagCreate ==
    /\ Running("part_000") /\ pc = "diag_create"
    /\ sessions' = sessions \cup {DiagSession(Sid(cycle, idx, "diag"), Url)}
    /\ cur' = Sid(cycle, idx, "diag")
    /\ pc' = "diag_run"
    /\ Step(<<>>, NoShot, NoSleep)
    /\ UNCHANGED <<prog, alive, cycle, urls, idx, ret, page, loopLocals, table, api>>

\* The tasks of the diagnostic Run are chromedp.FullScreenshot(&buf, 90)
\* and nothing before it: the new context shows the tab it opened with.
DiagShows(u) == BlankPage

\* A mutant of FailureLine: the diagnostic Run assigns to err.
FailureLineCapErr(u, runErr, capErr) ==
    Line("Failed to load or scrape page", u, IF capErr # "nil" THEN capErr ELSE runErr)

\* log.Printf("Failed to load or scrape page %s: %v", url, err)
FailureLine(u, runErr, capErr) == Line("Failed to load or scrape page", u, runErr)

\* A mutant of DiagEnds: no continue, the loop body falls through.
DiagEndsFallsThrough(lines, file, capErr) ==
    /\ sessions' = CancelSession(StartBrowser(sessions, cur), cur)
    /\ page' = NoPage
    /\ Step(Append(lines, FailureLine(Url, err, capErr)), file, NoSleep)
    /\ pc' = "upsert"
    /\ UNCHANGED <<cycle, urls, idx, ret, loopLocals>>

\* A mutant of DiagEnds: return err in place of continue.
DiagEndsReturns(lines, file, capErr) ==
    /\ sessions' = CancelSession(StartBrowser(sessions, cur), cur)
    /\ page' = NoPage
    /\ Step(Append(lines, FailureLine(Url, err, capErr)), file, NoSleep)
    /\ ret' = err
    /\ pc' = "return"
    /\ FreshLocals
    /\ UNCHANGED <<cycle, urls, idx>>

\* A mutant of DiagEnds: the failed url is tried again at once.
DiagEndsRetries(lines, file, capErr) ==
    /\ sessions' = CancelSession(StartBrowser(sessions, cur), cur)
    /\ page' = NoPage
    /\ Step(Append(lines, FailureLine(Url, err, capErr)), file, NoSleep)
    /\ pc' = "loop"
    /\ FreshLocals
    /\ UNCHANGED <<cycle, urls, idx, ret>>

\* The diagnostic Run is over with capErr, having written the lines and the
\* file: capTimeout(); cancel(); allocCancel(); log.Printf(...); continue
DiagEnds(lines, file, capErr) ==
    /\ sessions' = CancelSession(StartBrowser(sessions, cur), cur)
    /\ page' = NoPage
    /\ Step(Append(lines, FailureLine(Url, err, capErr)), file, NoSleep)
    /\ idx' = idx + 1
    /\ pc' = "loop"
    /\ FreshLocals
    /\ UNCHANGED <<cycle, urls, ret>>

\* chromedp.Run(tbCtx, FullScreenshot) and, when it returns nil, os.WriteFile.
DiagRun ==
    /\ Running("part_000") /\ pc = "diag_run"
    /\ \/ DiagEnds(<<Line("Saved screenshot for", Url, "nil")>>,
                   [url |-> Url, shows |-> DiagShows(Url).loaded], "nil")
       \/ DiagEnds(<<Line("Failed to write screenshot", "", "write")>>, NoShot, "nil")
       \/ DiagEnds(<<>>, NoShot, "screenshot")
    /\ UNCHANGED <<prog, alive, cur, table, api>>

\* The 10 seconds run out before the screenshot is taken: errScr # nil.
DiagDeadline ==
    /\ Running("part_000") /\ pc = "diag_run"
    /\ HasDeadline(sessions, cur)
    /\ DiagEnds(<<>>, NoShot, "timeout")
    /\ UNCHANGED <<prog, alive, cur, table, api>>

\* ----------------------------------------------------- part_000: persist
\* product := Product{URL, Name, InStock, ImageURL, UpdatedAt: time.Now()}
BuildProduct(u, n, s, img, t) == Product(u, n, s, img, t)

\* updateProduct(db, product) and the log line of its result.
Persist(p, lines) ==
    /\ product' = p
    /\ \E dbOk \in BOOLEAN :
         LET r == UpdateProduct(store, nextId, p, dbOk)
         IN  /\ store' = r.store
             /\ nextId' = r.nextId
             /\ assigned' = Assigned(assigned, r.store)
             /\ dbErr' = r.err
             /\ Step(Append(lines, IF r.err = "nil"
                                   THEN Line("Successfully updated database", "", "nil")
                                   ELSE Line("Database error", "", r.err)),
                     NoShot, NoSleep)

\* log the fields, build the Product, updateProduct, log how it went.
Upsert ==
    /\ Running("part_000") /\ pc = "upsert"
    /\ Persist(BuildProduct(Url, name, inStock, imageURL, Now(cycle, idx)),
               <<Line("Product", Url, "nil"), Line("In Stock", Url, "nil")>>)
    /\ pc' = "post_delay"
    /\ UNCHANGED <<prog, alive, cycle, urls, idx, ret, sessions, cur, page, err, name,
                   inStock, imageURL, api>>

\* time.Sleep(time.Duration(5+rand.Intn(10)) * time.Second); next url.
PostDelay ==
    /\ Running("part_000") /\ pc = "post_delay"
    /\ Step(<<>>, NoShot, Sleep("post", PostDelayBase, PostDelayBase + PostDelaySpan - 1))
    /\ idx' = idx + 1
    /\ pc' = "loop"
    /\ FreshLocals
    /\ UNCHANGED <<prog, alive, cycle, urls, ret, sessions, cur, page, table, api>>

\* The range loop is over: return nil.
ScrapeReturn ==
    /\ Running("part_000") /\ pc = "loop" /\ idx > Len(urls)
    /\ ret' = "nil"
    /\ pc' = "return"
    /\ Step(<<>>, NoShot, NoSleep)
    /\ UNCHANGED <<prog, alive, cycle, urls, idx, sessions, cur, page, loopLocals, table,
                   api>>

\* A mutant of CycleEnd: log.Fatalf in place of log.Printf.
CycleEndFatal ==
    /\ Running("part_000") /\ pc = "return"
    /\ IF ret # "nil"
       THEN /\ Fatal(Line("Error in scrape cycle", "", ret))
            /\ UNCHANGED <<prog, table>>
       ELSE /\ Step(<<>>, NoShot, NoSleep)
            /\ pc' = "call"
            /\ UNCHANGED <<prog, alive, cycle, urls, idx, ret, sessions, cur, page,
                           loopLocals, table, api>>

\* main: if err != nil { log.Printf("Error in scrape cycle: %v", err) },
\* and round the for loop again.
CycleEnd ==
    /\ Running("part_000") /\ pc = "return"
    /\ Step(IF ret # "nil" THEN <<Line("Error in scrape cycle", "", ret)>> ELSE <<>>,
            NoShot, NoSleep)
    /\ pc' = "call"
    /\ UNCHANGED <<prog, alive, cycle, urls, idx, ret, sessions, cur, page, loopLocals,
                   table, api>>

\* ---------------------------------------------------- part_000: read API
Methods == {"GET", "OPTIONS", "POST"}

\* The handler of /api/products behind the CORS middleware.
Handle(method, st, queryOk) ==
    IF method = "OPTIONS" THEN [status |-> 200, ctype |-> "", body |-> {}]
    ELSE IF method # "GET" THEN [status |-> 405, ctype |-> "text/plain", body |-> {}]
    ELSE IF ~queryOk THEN [status |-> 500, ctype |-> "text/plain", body |-> {}]
    ELSE [status |-> 200, ctype |-> "application/json", body |-> QueryProducts(st)]

\* go startAPI(db): register the handler, log, http.ListenAndServe binds.
ApiListen ==
    /\ Running("part_000") /\ api = "starting"
    /\ api' = "serving"
    /\ logged' = <<Line("Starting API server on :8080", "", "nil")>>
    /\ served' = NoResponse
    /\ UNCHANGED <<prog, alive, pc, cycle, urls, idx, ret, sessions, cur, page, loopLocals,
                   table, slept, shot>>

\* One request to /api/products, served to its end.
ApiRequest ==
    /\ Running("part_000") /\ api = "serving"
    /\ \E m \in Methods, queryOk \in BOOLEAN : served' = Handle(m, store, queryOk)
    /\ UNCHANGED <<prog, alive, pc, cycle, urls, idx, ret, sessions, cur, page, loopLocals,
                   table, slept, api, logged, shot>>

\* http.ListenAndServe returns (the port is taken, the listener breaks):
\* log.Fatal(err).
ApiFatal ==
    /\ Running("part_000") /\ api \in {"starting", "serving"}
    /\ Fatal(Line("ListenAndServe", "", "listen"))
    /\ UNCHANGED <<prog, table>>

\* --------------------------------------------------- main.go: scrape loop
\* main calls scrapeProducts; urls is the list written in the source.
M_Load ==
    /\ Running("main_go") /\ pc = "call" /\ cycle < MaxCycles
    /\ cycle' = cycle + 1
    /\ urls' = StaticUrls
    /\ idx' = 1
    /\ ret' = "nil"
    /\ pc' = "m_navigate"
    /\ Step(<<Line("Scraping products", "", "nil")>>, NoShot, NoSleep)
    /\ UNCHANGED <<prog, alive, sessions, cur, page, loopLocals, table, api>>

\* if err != nil { log.Printf(msg, err); continue }
M_Continue(msg, e) ==
    /\ Step(<<Line(msg, "", e)>>, NoShot, NoSleep)
    /\ idx' = idx + 1
    /\ pc' = "m_navigate"
    /\ FreshLocals

\* A task of Run is done and Run goes on, or returns nil.
M_GoesOn(next) ==
    /\ pc' = next
    /\ idx' = idx
    /\ err' = err /\ product' = product /\ dbErr' = dbErr
    /\ Step(<<>>, NoShot, NoSleep)

\* chromedp.Run(ctx, network.Enable(), chromedp.Navigate(url), ...) on the
\* context of main.
M_Navigate ==
    /\ Running("main_go") /\ pc = "m_navigate" /\ idx <= Len(urls)
    /\ sessions' = StartBrowser(sessions, cur)
    /\ \/ /\ page' \in PagesAt(Url)
          /\ M_GoesOn("m_wait_h1")
          /\ UNCHANGED <<name, inStock, imageURL>>
       \/ /\ page' = page
          /\ M_Continue("Failed to load page", "navigation")
    /\ UNCHANGED <<prog, alive, cycle, urls, ret, cur, table, api>>

\* chromedp.WaitVisible(`h1`): no deadline bounds the wait.
M_WaitH1 ==
    /\ Running("main_go") /\ pc = "m_wait_h1"
    /\ H1Visible(page)
    /\ pc' = "m_eval_name"
    /\ Step(<<Line("Loaded page", Url, "nil")>>, NoShot, NoSleep)
    /\ UNCHANGED <<prog, alive, cycle, urls, idx, ret, sessions, cur, page, loopLocals,
                   table, api>>

\* The second Run: the name script.
M_EvalName ==
    /\ Running("main_go") /\ pc = "m_eval_name"
    /\ \/ /\ name' = EvalH1Name(page)
          /\ M_GoesOn("m_eval_stock")
          /\ UNCHANGED <<inStock, imageURL>>
       \/ M_Continue("Failed to scrape details", "evaluate")
    /\ UNCHANGED <<prog, alive, cycle, urls, ret, sessions, cur, page, table, api>>

\* The second Run: the stock script.
M_EvalStock ==
    /\ Running("main_go") /\ pc = "m_eval_stock"
    /\ \/ /\ inStock' = EvalInStock(page)
          /\ M_GoesOn("m_wait_image")
          /\ UNCHANGED <<name, imageURL>>
       \/ M_Continue("Failed to scrape details", "evaluate")
    /\ UNCHANGED <<prog, alive, cycle, urls, ret, sessions, cur, page, table, api>>

\* chromedp.WaitVisible(`#heroImage_zoom`): no deadline bounds the wait.
M_WaitImage ==
    /\ Running("main_go") /\ pc = "m_wait_image"
    /\ page.hero
    /\ M_GoesOn("m_eval_image")
    /\ UNCHANGED <<prog, alive, cycle, urls, ret, sessions, cur, page, name, inStock,
                   imageURL, table, api>>

\* The second Run: the image script; Run returns nil.
M_EvalImage ==
    /\ Running("main_go") /\ pc = "m_eval_image"
    /\ \/ /\ imageURL' = page.img
          /\ M_GoesOn("m_upsert")
          /\ UNCHANGED <<name, inStock>>
       \/ M_Continue("Failed to scrape details", "evaluate")
    /\ UNCHANGED <<prog, alive, cycle, urls, ret, sessions, cur, page, table, api>>

\* log the fields, build the Product, updateProduct, log how it went.
M_Upsert ==
    /\ Running("main_go") /\ pc = "m_upsert"
    /\ Persist(BuildProduct(Url, name, inStock, imageURL, Now(cycle, idx)),
               <<Line("Product", Url, "nil"), Line("In Stock", Url, "nil"),
                 Line("Image URL", Url, "nil")>>)
    /\ pc' = "m_sleep"
    /\ UNCHANGED <<prog, alive, cycle, urls, idx, ret, sessions, cur, page, err, name,
                   inStock, imageURL, api>>

\* time.Sleep(10 * time.Second); next url.
M_Sleep ==
    /\ Running("main_go") /\ pc = "m_sleep"
    /\ Step(<<>>, NoShot, Sleep("post", FixedPostDelay, FixedPostDelay))
    /\ idx' = idx + 1
    /\ pc' = "m_navigate"
    /\ FreshLocals
    /\ UNCHANGED <<prog, alive, cycle, urls, ret, sessions, cur, page, table, api>>

\* return nil; main: time.Sleep(time.Minute * 5) and round the loop again.
M_CycleEnd ==
    /\ Running("main_go") /\ pc = "m_navigate" /\ idx > Len(urls)
    /\ ret' = "nil"
    /\ Step(<<>>, NoShot, Sleep("cycle", CycleSleepMinutes * 60, CycleSleepMinutes * 60))
    /\ pc' = "call"
    /\ UNCHANGED <<prog, alive, cycle, urls, idx, sessions, cur, page, loopLocals, table,
                   api>>

\* --------------------------------------------------------- specification
\* The scrape goroutine of part_000.
Worker ==
    \/ LoadTargets \/ PreDelay \/ CreateSession
    \/ Navigate \/ WaitReady \/ WaitVisible \/ EvaluateName \/ EvaluateStock
    \/ DeadlineExceeded
    \/ DiagCreate \/ DiagRun \/ DiagDeadline
    \/ Upsert \/ PostDelay \/ ScrapeReturn \/ CycleEnd

\* The API goroutine of part_000.
Api == ApiListen \/ ApiRequest \/ ApiFatal

\* The scrape goroutine of main.go.
M_Worker ==
    \/ M_Load \/ M_Navigate \/ M_WaitH1 \/ M_EvalName \/ M_EvalStock
    \/ M_WaitImage \/ M_EvalImage \/ M_Upsert \/ M_Sleep \/ M_CycleEnd

Next == Worker \/ Api \/ M_Worker

Spec == Init /\ [][Next]_vars

\* The Go scheduler runs a goroutine that can run: the scrape goroutine
\* takes its next step, and a timer that has run out fires.
FairSpec == Spec /\ WF_vars(Worker)

\* ---------------------------------------------------------------- claims
Lines(q) == {q[i] : i \in DOMAIN q}

FailureMsgs ==
    {"Failed to load or scrape page", "Failed to load page", "Failed to scrape details"}

\* The last step that logged wrote the failure of an attempt.
FailureLogged == \E l \in Lines(logged) : l.msg \in FailureMsgs

\* The positions of an iteration that come before its updateProduct.
PreUpsertPcs ==
    {"create", "diag_create", "diag_run"} \cup RunPcs
    \cup {"m_navigate", "m_wait_h1", "m_eval_name", "m_eval_stock", "m_wait_image",
          "m_eval_image"}

\* The positions at which updateProduct has been called in this iteration.
CalledPcs == {"post_delay", "m_sleep"}

\* C1: when the attempt for a url fails, updateProduct is not called for it
\* in that iteration and the table is left as it was: no step before the
\* upsert writes the table, no step taken while Run's error is pending
\* writes it or builds a Product, and the step that logs the failure moves
\* on to the next url with the table and the Product untouched.
C1_FailureLeavesRecord ==
    [][/\ (pc \in PreUpsertPcs) => store' = store
       /\ (err # "nil" \/ err' # "nil") => (store' = store /\ product' = NoProduct)
       /\ (FailureLogged' /\ idx' # idx) =>
             /\ store' = store
             /\ product' = NoProduct
             /\ idx' = idx + 1
             /\ pc' \in {"loop", "m_navigate"}]_vars

\* A failed attempt for a url that has a row from an earlier cycle.
C1_Witness ==
    /\ pc = "loop" /\ idx > 1 /\ FailureLogged
    /\ RowsOf(store, urls[idx - 1]) # {}

\* The row of p.URL is the only one of that url, has the fields of p and
\* the id the url was first given.
StoredAs(p) ==
    \E r \in store :
        /\ RowsOf(store, p.URL) = {r}
        /\ r.name = p.Name /\ r.in_stock = p.InStock /\ r.price = p.Price
        /\ r.image_url = p.ImageURL /\ r.updated_at = p.UpdatedAt
        /\ r.id = assigned[p.URL]

\* C2 as stated: after any call of updateProduct the table holds exactly
\* one row for the url, with the fields of that call and the first id.
C2_EveryCallStored == pc \in CalledPcs => StoredAs(product)

\* C2 as amended: after a call of updateProduct that returned no error the
\* table holds exactly one row for the url, with the fields of that call
\* and the id its first insertion gave it; a call that returns an error
\* leaves the table as it was; and no url ever has two rows or another id.
C2_SuccessfulCallStored ==
    /\ [](/\ (pc \in CalledPcs /\ dbErr = "nil") => StoredAs(product)
          /\ \A u \in URLs : \A r \in RowsOf(store, u) :
                RowsOf(store, u) = {r} /\ r.id = assigned[u])
    /\ [][(pc' \in CalledPcs /\ pc \notin CalledPcs /\ dbErr' # "nil") =>
             store' = store]_vars

\* The second successful upsert of a url: its row is older (by id) and
\* fresher (by updated_at) than another url's row.
C2_Witness ==
    /\ pc \in CalledPcs /\ dbErr = "nil"
    /\ \E a \in RowsOf(store, product.URL), b \in store :
          a.id < b.id /\ b.updated_at < a.updated_at

\* The Product of url among those a query returns.
Read(products, u) == {p \in products : p.URL = u}

\* The Products p carry the payload name, in_stock, image_url for url u.
Carries(products, u) ==
    /\ Read(products, u) # {}
    /\ \A p \in Read(products, u) :
          p.Name = name /\ p.InStock = inStock /\ p.ImageURL = imageURL

\* C3: after a successful attempt whose upsert returned no error, a read of
\* the table for the url (the query of the API, and the JSON response the
\* API has just served) carries the name, in_stock and image_url of the
\* attempt.
C3_ReadReturnsPayload ==
    (pc = "post_delay" /\ dbErr = "nil") =>
        /\ Carries(QueryProducts(store), Url)
        /\ served.ctype = "application/json" => Carries(served.body, Url)

\* The API served a read right after an upsert replaced the fields of a
\* row that is older (by id) than another url's row.
C3_Witness ==
    /\ pc = "post_delay" /\ dbErr = "nil"
    /\ served.ctype = "application/json"
    /\ name # <<>>
    /\ \E p \in served.body, q \in served.body :
          /\ p.URL = Url /\ p.UpdatedAt = Now(cycle, idx)
          /\ p.ID < q.ID /\ q.UpdatedAt < p.UpdatedAt

\* C4 as stated: in the loop of part_000 the pre-attempt sleep precedes every
\* attempt, and every step that moves on to the next url is the
\* post-attempt sleep, after a Success as after a Failure.
C4_DelaysAroundEveryAttempt ==
    [][prog = "part_000" =>
          /\ (pc = "create" /\ pc' = "navigate") => slept.kind = "pre"
          /\ (cycle' = cycle /\ idx' = idx + 1) => slept'.kind = "post"]_vars

\* C5: a session the loop created is live only while its Run is under way,
\* as the session tbCtx refers to, with its allocator and its context both
\* live: once the Run has returned, whatever it returned, nothing of the
\* session is left.
C5_NoSessionOutlivesAttempt ==
    \A s \in sessions :
        s.kind # "main" =>
            /\ s.id = cur /\ s.id = Sid(cycle, idx, s.kind)
            /\ s.alloc /\ s.ctx
            /\ pc \in (IF s.kind = "primary" THEN RunPcs ELSE {"diag_run"})

\* The diagnostic session of an attempt that timed out has been cancelled.
C5_Witness ==
    /\ pc = "loop" /\ idx = 2 /\ sessions = {MainSession}
    /\ Line("Failed to load or scrape page", urls[1], "timeout") \in Lines(logged)

C7_FailureDoesNotEndCycle ==
    [][~ApiFatal =>
          /\ (pc = "diag_run" /\ pc' # pc) =>
                /\ Line("Failed to load or scrape page", Url, err) \in Lines(logged')
                /\ pc' = "loop" /\ idx' = idx + 1
          /\ (pc \in {"upsert", "m_upsert"} /\ pc' # pc) =>
                /\ dbErr' # "nil" => Line("Database error", "", dbErr') \in Lines(logged')
                /\ pc' \in CalledPcs /\ idx' = idx
          /\ (pc \in CalledPcs /\ pc' # pc) =>
                /\ pc' \in {"loop", "m_navigate"} /\ idx' = idx + 1
          /\ (prog = "main_go" /\ pc \in PreUpsertPcs /\ idx' # idx) =>
                /\ FailureLogged'
                /\ pc' = "m_navigate" /\ idx' = idx + 1
          /\ (pc = "loop" /\ idx <= Len(urls) /\ pc' # pc) => (pc' = "create" /\ idx' = idx)
          /\ (pc = "create" /\ pc' # pc) =>
                /\ pc' = "navigate" /\ idx' = idx
                /\ \E s \in sessions' : s.id = cur' /\ s.kind = "primary" /\ s.url = Url
          /\ (pc \notin {"call", "return"} /\ idx <= Len(urls)) =>
                /\ alive' /\ cycle' = cycle /\ urls' = urls
                /\ pc' \notin {"call", "return"}]_vars

\* The second url of the list is being attempted in the first cycle, and
\* the first url has left no row: its attempt or its upsert failed.
C7_Witness ==
    /\ alive /\ cycle = 1 /\ idx = 2 /\ pc = "navigate" /\ store = {}
    /\ nextId = 1
    /\ \E s \in sessions : s.id = cur /\ s.url = urls[2]

\* C8: short of the exit of the API, when the diagnostic Run returns an
\* error or the file is not written, the step logs the failure of the
\* attempt with the error the primary Run returned, calls no updateProduct,
\* leaves what scrapeProducts will return alone and goes to the next url;
\* and the making of the diagnostic session leaves the error alone.
C8_CaptureFailureSwallowed ==
    [][/\ (pc = "diag_run" /\ pc' # pc /\ shot' = NoShot /\ ~ApiFatal) =>
             /\ err # "nil"
             /\ Line("Failed to load or scrape page", Url, err) \in Lines(logged')
             /\ store' = store /\ product' = NoProduct
             /\ ret' = ret /\ alive'
             /\ pc' = "loop" /\ idx' = idx + 1 /\ cycle' = cycle /\ urls' = urls
       /\ (pc = "diag_create" /\ pc' = "diag_run") => err' = err]_vars

\* The diagnostic Run of a failed navigation returned an error: only the
\* failure of the attempt was logged, and the loop is at the next url.
C8_Witness ==
    /\ alive /\ pc = "loop" /\ idx = 2 /\ shot = NoShot /\ ret = "nil"
    /\ logged = <<Line("Failed to load or scrape page", urls[1], "navigation")>>

\* C9: in part_000, while the process lives, an attempt whose Run is under
\* way gets to the test of err (Failure: the diagnostic capture; Success:
\* the upsert), and a diagnostic Run under way gets to its end.
C9_AttemptTerminates ==
    /\ (alive /\ pc \in RunPcs) ~> (pc \in {"diag_create", "upsert"} \/ ~alive)
    /\ (alive /\ pc = "diag_run") ~> (pc = "loop" \/ ~alive)

\* An attempt at a page with no body has ended with the deadline's error.
C9_Witness ==
    /\ alive /\ pc = "diag_create" /\ err = "timeout" /\ sessions = {MainSession}

\* C10 as stated: a step of the API goroutine leaves the table, the scrape
\* goroutine's position and its sessions alone, and the process alive.
C10_ApiLeavesLoopRunning ==
    [][Api => (table' = table /\ pc' = pc /\ sessions' = sessions /\ alive')]_vars

\* C11 as stated: the first Run of an attempt, which navigates to its url,
\* is made on a browser context no Run was made on before, in the loop of
\* part_000 as in the loop of main.go.
C11_ContextPerAttempt ==
    [][(/\ pc \in {"navigate", "m_navigate"} /\ idx <= Len(urls)
        /\ (pc' # pc \/ idx' # idx)) =>
          \E s \in sessions : s.id = cur /\ ~s.started]_vars

\* C12 as stated: an attempt is a Failure, and goes to the diagnostic
\* capture, only for a navigation error or a deadline that ran out.
C12_EvaluationFailureIsSuccess ==
    pc = "diag_create" => err \in {"navigation", "timeout"}

\* C13 as stated: the screenshot file written for a failed attempt at u
\* shows the page at u.
C13_SnapshotShowsUrl ==
    shot # NoShot => shot.shows = shot.url

\* C14: in part_000, while the process lives, within a cycle the list stays
\* as loaded and the index only moves from one entry to the next, and only
\* at the end of an attempt at that entry; the body is entered once per
\* index, for the url at that index; and scrapeProducts returns nil only
\* past the last entry.
C14_OneAttemptPerEntryInOrder ==
    [][(prog = "part_000" /\ alive') =>
          /\ (pc # "call") => (cycle' = cycle /\ urls' = urls /\ idx' \in {idx, idx + 1})
          /\ (pc # "call" /\ idx' = idx + 1) =>
                (pc \in {"diag_run", "post_delay"} /\ pc' = "loop")
          /\ (pc' = "loop" /\ pc # "loop") => (idx' = idx + 1 \/ (pc = "call" /\ idx' = 1))
          /\ (pc' = "create" /\ pc # "create") => (pc = "loop" /\ idx \in 1..Len(urls))
          /\ (pc' = "navigate" /\ pc # "navigate") =>
                /\ pc = "create"
                /\ cur' = Sid(cycle, idx, "primary")
                /\ \E s \in sessions' : s.id = cur' /\ s.url = urls[idx]
          /\ (pc' \in RunPcs \cup {"diag_create", "diag_run", "upsert", "post_delay"}
                /\ pc # "create") => pc \notin {"loop", "call", "return"}
          /\ (pc' = "return" /\ pc = "loop") => idx = Len(urls) + 1]_vars

\* A cycle over a list of two is over: the first entry failed and was not
\* tried again, the second was attempted after it and stored.
C14_Witness ==
    /\ prog = "part_000" /\ alive /\ cycle = 1 /\ pc = "return" /\ ret = "nil"
    /\ Len(urls) = 2 /\ idx = 3
    /\ RowsOf(store, urls[1]) = {} /\ RowsOf(store, urls[2]) # {}

\* C15 as stated: no step of the program ends the process, so the loop of
\* main is never stopped from inside.
C15_NothingEndsLoop ==
    [][alive => alive']_vars

\* C16: a url that has a row keeps a row at every step, of the scrape loop,
\* of the API and of the exit of the process; and a url gets its first row
\* only at the updateProduct of an iteration for that url whose Run
\* returned nil.
C16_RecordsNeverDeleted ==
    [][\A u \in URLs :
          /\ RowsOf(store, u) # {} => RowsOf(store', u) # {}
          /\ (RowsOf(store, u) = {} /\ RowsOf(store', u) # {}) =>
                /\ pc \in {"upsert", "m_upsert"} /\ pc' \in CalledPcs
                /\ Url = u /\ err = "nil" /\ dbErr' = "nil"
                /\ product'.URL = u]_vars

\* Two urls have a row each, and the older row has just been written again.
C16_Witness ==
    /\ pc = "post_delay" /\ dbErr = "nil" /\ cycle = 2
    /\ \A u \in URLs : RowsOf(store, u) # {}
    /\ \E r \in RowsOf(store, Url) : r.id = 1 /\ r.updated_at = Now(cycle, idx)

\* C17: the stock script sets inStock to TRUE exactly when the page holds
\* none of the three out-of-stock markers; the value is what the Product
\* passed to updateProduct carries; and after an updateProduct that
\* returned nil the row of the url holds it.
C17_InStockIffNoMarker ==
    /\ [][(/\ pc \in {"eval_stock", "m_eval_stock"}
           /\ pc' \in {"upsert", "m_wait_image"}) =>
             (inStock' = (page.markers \cap Markers = {}))]_vars
    /\ [](pc \in CalledPcs =>
             /\ product.InStock = inStock
             /\ dbErr = "nil" => \A r \in RowsOf(store, Url) : r.in_stock = inStock)
    /\ [][(pc \in {"upsert", "m_wait_image", "m_eval_image", "m_upsert"}
           /\ pc' \in {"upsert", "m_wait_image", "m_eval_image", "m_upsert"}
                      \cup CalledPcs) => inStock' = inStock]_vars

\* The stock script has found an out-of-stock marker on the page of a url
\* whose row says in stock, and updateProduct is about to be called.
C17_Witness ==
    /\ pc = "upsert" /\ err = "nil" /\ inStock = FALSE /\ cycle = 2
    /\ \E r \in RowsOf(store, Url) : r.in_stock = TRUE /\ r.updated_at > 0

\* C18: in part_000 the loop holds at most one session at a time, and none
\* at the head of an iteration, when the diagnostic session is about to be
\* made, or once Run has returned nil; the context of main() is never run.
C18_OneLiveSession ==
    prog = "part_000" =>
        /\ Cardinality({s \in sessions : s.kind # "main"}) <= 1
        /\ \A s \in sessions : s.started => s.kind # "main"
        /\ pc \in {"call", "loop", "create", "diag_create", "upsert", "post_delay",
                   "return", "exited"} => sessions \subseteq {MainSession}

\* The diagnostic session of the second url is the one session of the loop.
C18_Witness ==
    /\ prog = "part_000" /\ pc = "diag_run" /\ idx = 2
    /\ \E s \in sessions : s.kind = "diag" /\ s.id = Sid(cycle, idx, "diag")
    /\ Cardinality(sessions) = 2

\* C19: in part_000 the Product passed to updateProduct has Price 0 and an
\* empty ImageURL, and after an updateProduct that returned nil the row of
\* the url holds price 0 and an empty image_url.
C19_PriceAndImageDefaults ==
    (prog = "part_000" /\ pc = "post_delay") =>
        /\ product.Price = 0 /\ product.ImageURL = <<>>
        /\ dbErr = "nil" =>
              /\ RowsOf(store, Url) # {}
              /\ \A r \in RowsOf(store, Url) : r.price = 0 /\ r.image_url = <<>>

\* part_000 has written again the row main.go had left with an image_url;
\* the row has its id and its image_url is empty.
C19_Witness ==
    /\ prog = "part_000" /\ pc = "post_delay" /\ dbErr = "nil"
    /\ Url = StaticUrls[1] /\ nextId = 2
    /\ \E r \in RowsOf(store, Url) :
          r.id = 1 /\ r.image_url = <<>> /\ r.updated_at = Now(cycle, idx)

====
